---- MODULE Spec2Model ----
(***************************************************************************)
(* State-machine model of the RKNPU driver (src/src/rknpu_dev.rs,          *)
(* src/src/configs.rs, src/src/types.rs).                                  *)
(*                                                                         *)
(* One caller drives one RknpuDev.  Every driver entry point is split into *)
(* the steps its code performs, and every side effect (register read or    *)
(* write, cache maintenance call, power-domain call, delay) is appended to *)
(* `log` in program order, the way a recording register backend would see  *)
(* it.                                                                     *)
(*                                                                         *)
(* TLC integers are 32-bit signed, so a u32/u64 value v is held as the     *)
(* pair <<v \div 65536, v % 65536>> ("wide" number); the low limb is       *)
(* always in 0..65535, the high limb is unbounded above within TLC's       *)
(* range, so sums that leave the 32-bit range stay representable and the   *)
(* wrap or abort of the 32-bit computation is modelled explicitly.         *)
(***************************************************************************)
EXTENDS Integers, Sequences, FiniteSets, TLC

(***************************************************************************)
(* Wide-number arithmetic.                                                 *)
(***************************************************************************)
Limb == 2 ^ 16

\* the wide number of a small non-negative integer
U(n) == <<n \div Limb, n % Limb>>

Norm(h, l) == <<h + (l \div Limb), l % Limb>>

WAdd(a, b) == Norm(a[1] + b[1], a[2] + b[2])

\* a - b over the integers, for a >= b
WSub(a, b) == Norm(a[1] - b[1], a[2] - b[2])

WLt(a, b) == a[1] < b[1] \/ (a[1] = b[1] /\ a[2] < b[2])

\* floor(a / d) for a small divisor d
WDiv(a, d) == <<a[1] \div d, ((a[1] % d) * Limb + a[2]) \div d>>

\* the value a u32 holds after a wrapping operation
Wrap32(a) == <<a[1] % Limb, a[2]>>

\* whether an integer result lies outside u32
Overflows32(a) == a[1] >= Limb \/ a[1] < 0

Pow2(n) == 2 ^ n

RECURSIVE And16(_, _, _)
And16(x, y, k) ==
    IF k = 0 THEN 0
    ELSE (IF x % 2 = 1 /\ y % 2 = 1 THEN 1 ELSE 0)
         + 2 * And16(x \div 2, y \div 2, k - 1)

RECURSIVE Or16(_, _, _)
Or16(x, y, k) ==
    IF k = 0 THEN 0
    ELSE (IF x % 2 = 1 \/ y % 2 = 1 THEN 1 ELSE 0)
         + 2 * Or16(x \div 2, y \div 2, k - 1)

\* u32 & u32, u32 | u32
BitAnd(a, b) == <<And16(a[1], b[1], 16), And16(a[2], b[2], 16)>>
BitOr(a, b) == <<Or16(a[1], b[1], 16), Or16(a[2], b[2], 16)>>

\* u32 << n for 0 <= n <= 31: the bits shifted past bit 31 are dropped
Shl(a, n) ==
    LET b == IF n >= 16 THEN <<a[2], 0>> ELSE a
        m == IF n >= 16 THEN n - 16 ELSE n
        k == Pow2(16 - m)
    IN  <<(b[1] % k) * Pow2(m) + (b[2] \div k), (b[2] % k) * Pow2(m)>>

(***************************************************************************)
(* Program constants.                                                      *)
(***************************************************************************)
NPU == 8
NPUTOP == 9
NPU1 == 10
NPU2 == 11

RK3588_NPU_VERSION == <<17993, 21061>>     \* 0x46495245
INT_CLEAR_VALUE == <<1, 65535>>            \* 0x1ffff

NPU0_AXI_SRST == 0
NPU0_AHB_SRST == 1
WRITE_MASK_SHIFT == 16

\* rk3588_rs constants imported by rknpu_dev.rs (values of the vendor header)
RKNPU_JOB_PINGPONG == 4
RKNPU_PC_DATA_EXTRA_AMOUNT == 4

DefaultTimeoutMs == 5000
PollsPerMs == 100
TaskFlushSize == 1024
PoolOffset == 4096
CmdFlushSize == 8 * 1024 * 1024

Boards == {"Rk3588", "Rk3568", "Rv1106", "Rk3562", "Rk3583"}

RK3562 == [pc_data_amount_scale |-> 2, pc_task_number_bits |-> 16,
           pc_task_number_mask |-> U(65535), max_submit_number |-> U(65535),
           core_mask |-> 1]
RK3568 == [pc_data_amount_scale |-> 1, pc_task_number_bits |-> 12,
           pc_task_number_mask |-> U(4095), max_submit_number |-> U(4095),
           core_mask |-> 1]
RK3583 == [pc_data_amount_scale |-> 2, pc_task_number_bits |-> 12,
           pc_task_number_mask |-> U(4095), max_submit_number |-> U(4095),
           core_mask |-> 3]
RK3588 == [pc_data_amount_scale |-> 2, pc_task_number_bits |-> 12,
           pc_task_number_mask |-> U(4095), max_submit_number |-> U(4095),
           core_mask |-> 7]
RV1106 == [pc_data_amount_scale |-> 2, pc_task_number_bits |-> 16,
           pc_task_number_mask |-> U(65535), max_submit_number |-> U(65535),
           core_mask |-> 1]

\* mutant: every board gets the three-core configuration
from_board_always_rk3588(b) == RK3588

from_board(b) ==
    CASE b = "Rk3588" -> RK3588
      [] b = "Rk3568" -> RK3568
      [] b = "Rv1106" -> RV1106
      [] b = "Rk3562" -> RK3562
      [] b = "Rk3583" -> RK3583

\* RkBoard::num_cores
board_num_cores(b) ==
    CASE b = "Rk3588" -> 3
      [] b = "Rk3583" -> 2
      [] b \in {"Rk3568", "Rv1106", "Rk3562"} -> 1

\* RkBoard::core_mask
board_core_mask(b) ==
    CASE b = "Rk3588" -> 7
      [] b = "Rk3583" -> 3
      [] b \in {"Rk3568", "Rv1106", "Rk3562"} -> 1

\* RknpuConfig::num_cores
num_cores(cfg) ==
    CASE cfg.core_mask = 7 -> 3
      [] cfg.core_mask = 3 -> 2
      [] cfg.core_mask = 1 -> 1
      [] OTHER -> 0

\* RknpuConfig::is_core_available
is_core_available(cfg, core) ==
    IF core >= 3 THEN FALSE
    ELSE BitAnd(U(cfg.core_mask), Shl(U(1), core)) # U(0)

(***************************************************************************)
(* Bounds of the model.                                                    *)
(***************************************************************************)
\* cache lines in the largest range handed to the cache functions
MaxLines == 3
MaxTimeout == 1
MaxTaskNumber == 3
MaxTaskStart == 1

(***************************************************************************)
(* Recorded side effects.                                                  *)
(***************************************************************************)
RegWrite(reg, val) == [reg |-> reg, val |-> val, kind |-> "w", arg |-> 0]
RegRead(reg, val) == [reg |-> reg, val |-> val, kind |-> "r", arg |-> 0]
PdOn(d) == [reg |-> "pm", val |-> U(d), kind |-> "pd_on", arg |-> 0]
PdOff(d) == [reg |-> "pm", val |-> U(d), kind |-> "pd_off", arg |-> 0]
Delay(us) == [reg |-> "cpu", val |-> U(us), kind |-> "delay", arg |-> 0]

IsWrite(e) == e.kind = "w"
IsPd(e) == e.kind \in {"pd_on", "pd_off"}

Writes(l) == SelectSeq(l, IsWrite)
PdOps(l) == SelectSeq(l, IsPd)

IsPrefix(s, t) == Len(s) <= Len(t) /\ SubSeq(t, 1, Len(s)) = s

(***************************************************************************)
(* Inputs: submission requests, task-descriptor memory, register reads.    *)
(***************************************************************************)
\* descriptors addressable inside the task-descriptor image
MemLen == MaxTaskStart + MaxTaskNumber

\* regcmd_addr is a u64: the field regcmd_addr holds its low 48 bits and
\* regcmd_top its bits 48..63 (zero for every address the SoC can emit)
Descriptor(cmd, amount, clear, mask) ==
    [regcmd_addr |-> cmd, regcmd_top |-> 0, regcfg_amount |-> amount,
     int_clear |-> clear, int_mask |-> mask]

\* an image whose k-th descriptor differs from every other in every field;
\* the first descriptor holds `amount` and a command address with high
\* part `cmdhi` (regcmd_addr is a u64: cmdhi >= 65536 lies above 4 GiB)
TaskImage(amount, cmdhi) ==
    [k \in 0..(MemLen - 1) |->
        Descriptor(<<cmdhi + k, 4096>>,
                   IF k = 0 THEN amount ELSE U(50 + k),
                   <<1, 65535 - k>>,
                   U(768 + k))]

\* what a read past the image may find
GarbageTasks == {Descriptor(U(0), U(0), U(0), U(0)),
                 Descriptor(U(8192), U(7), U(3), U(1))}

\* an image whose first command address has a bit above bit 47 set
HighCmdImage ==
    [TaskImage(U(50), 0) EXCEPT ![0] = [@ EXCEPT !.regcmd_top = 1]]

NoTasks == [k \in {} |-> 0]

SubmitRequest(task_obj_addr, task_start, task_number, flags, timeout) ==
    [task_obj_addr |-> task_obj_addr, task_start |-> task_start,
     task_number |-> task_number, flags |-> flags, timeout |-> timeout]

NoSubmit == SubmitRequest(U(0), U(0), U(0), U(0), 0)

TaskObjAddr == <<4, 0>>
\* kernel addresses are held as offsets into the kernel linear map
TaskBaseKva == <<4, 0>>
Null == U(0)

\* results of the caller's dma_to_kernel translator
XlateResults == {Null, TaskBaseKva}

U32Max == <<65535, 65535>>

\* requests over small ranges, valid and invalid
BaseReqs ==
    {[submit |-> SubmitRequest(a, U(s), U(n), U(f), t),
      tasks |-> TaskImage(U(50), 0)] :
        a \in {U(0), TaskObjAddr}, s \in 0..MaxTaskStart,
        n \in 0..MaxTaskNumber, f \in {0, RKNPU_JOB_PINGPONG},
        t \in 1..MaxTimeout}

\* first-descriptor amounts, including the ends of the u32 range
AmountValues ==
    {U(0), U(1), U(2), U(100), <<65535, 65531>>, <<65535, 65532>>, U32Max}

AmountReqs ==
    {[submit |-> SubmitRequest(TaskObjAddr, U(0), U(1), U(0), 1),
      tasks |-> TaskImage(a, 0)] : a \in AmountValues}
    \cup {[submit |-> SubmitRequest(TaskObjAddr, U(0), U(1), U(0), 1),
           tasks |-> img] : img \in {TaskImage(U(50), 65537), HighCmdImage}}

\* task counts and flag words, including the ends of the u32 range
ControlReqs ==
    {[submit |-> SubmitRequest(TaskObjAddr, U(0), n, f, 1),
      tasks |-> TaskImage(U(50), 0)] :
        n \in {U(5), U(4095), U(4096), <<1, 0>>, U32Max},
        f \in {<<65535, 65531>>, U32Max}}
    \cup {[submit |-> SubmitRequest(TaskObjAddr, U(1), n, U(0), 1),
           tasks |-> TaskImage(U(50), 0)] : n \in {U(5), U32Max}}
    \cup {[submit |-> SubmitRequest(TaskObjAddr, U32Max, U(2), U(0), 1),
           tasks |-> TaskImage(U(50), 0)]}

SubmitReqs == BaseReqs \cup AmountReqs \cup ControlReqs

\* values the int_status register may show
StatusValues == {U(0), U(256), U(512), U(768)}

PmBases == {0, 1}

VersionValues == {RK3588_NPU_VERSION, U(0), <<17993, 21062>>}

(***************************************************************************)
(* State.                                                                  *)
(***************************************************************************)
VARIABLES
    board,      \* RkBoard given to RknpuDev::new
    pm_base,    \* RknpuDev.pm_base: 0 or the PMU block address
    config,     \* RknpuDev.config: the RknpuConfig chosen by RknpuDev::new
    op,         \* the entry point being executed, "none" when idle
    pc,         \* position inside the entry point
    log,        \* side effects of the current call, in program order
    result,     \* value returned by the call ("none" while running)
    submit,     \* the RknpuSubmit passed to rknpu_submit_ioctl
    tasks,      \* task-descriptor memory behind submit.task_obj_addr
    task_base,  \* translated task-descriptor base
    task_end,   \* index of the last descriptor
    first_task, \* fields read from the first descriptor
    last_task,  \* fields read from the last descriptor
    timeout_ms, \* wait_job_done's timeout
    i,          \* wait_job_done's loop counter
    polls,      \* number of int_status polls made by wait_job_done
    int_status, \* value of the latest int_status read
    action,     \* the RknpuAction passed to rknpu_action_ioctl
    peer_pc,    \* position of a second caller inside rknpu_submit_ioctl
    peer_i,     \* the second caller's wait_job_done loop counter
    serialized, \* whether the callers serialize their calls externally
    cache_pc,   \* position inside dcache_flush_range / _invalidate_range
    cache_op,   \* the line instruction of the function: dc cvac or dc ivac
    start,      \* its argument start
    size,       \* its argument size
    addr,       \* its local addr
    end,        \* its local end
    maint       \* the maintenance instructions it has issued, in order

devVars == <<board, pm_base, config>>
peerVars == <<peer_pc, peer_i, serialized>>
cacheVars == <<cache_pc, cache_op, start, size, addr, end, maint>>
reqVars == <<submit, tasks, action>>
locVars == <<task_base, task_end, first_task, last_task, timeout_ms, i,
             polls, int_status>>
vars == <<board, pm_base, config, op, pc, log, result, submit, tasks, task_base,
          task_end, first_task, last_task, timeout_ms, i, polls,
          int_status, action, peer_pc, peer_i, serialized, cache_pc,
          cache_op, start, size, addr, end, maint>>

NoDescriptor == Descriptor(U(0), U(0), U(0), U(0))

\* a usize address: byte `x` of the low end of the address space, or byte
\* `x` of its last Window bytes (top), the address 2^64 - Window + x
Address(top, x) == [x |-> x, top |-> top]

\* neither cache function is running
CacheIdle ==
    /\ cache_pc = "idle"
    /\ cache_op = "none"
    /\ start = Address(FALSE, 0)
    /\ size = 0
    /\ addr = Address(FALSE, 0)
    /\ end = Address(FALSE, 0)
    /\ maint = <<>>

RknpuAction(flags, value) == [flags |-> flags, value |-> value]
NoAction == RknpuAction(U(0), U(0))

\* action codes handed to rknpu_action_ioctl, inside and outside 0..23
ActionFlags == {U(0), U(1), U(6), U(7), U(23), U(24), U32Max}
ActionValues == {U(0), U(77)}

LocalsCleared ==
    /\ task_base = Null
    /\ task_end = U(0)
    /\ first_task = NoDescriptor
    /\ last_task = NoDescriptor
    /\ timeout_ms = 0
    /\ i = 0
    /\ polls = 0
    /\ int_status = U(0)

\* no call is running; `discipline` is the set of calling disciplines
InitWith(boards, bases, discipline) ==
    /\ board \in boards
    /\ pm_base \in bases
    /\ config = from_board(board)
    /\ op = "none"
    /\ pc = "idle"
    /\ log = <<>>
    /\ result = "none"
    /\ submit = NoSubmit
    /\ tasks = NoTasks
    /\ action = NoAction
    /\ LocalsCleared
    /\ peer_pc = "idle"
    /\ peer_i = 0
    /\ serialized \in discipline
    /\ CacheIdle

\* one caller at a time
Init == InitWith(Boards, PmBases, {TRUE})

\* the call returns `r` to its caller
Finish(r) ==
    /\ pc' = "done"
    /\ result' = r

\* a panic (unwrap on Err, arithmetic overflow check, invalid enum value)
\* aborts the program: no step follows
Panic ==
    /\ pc' = "panicked"
    /\ result' = "panic"

(***************************************************************************)
(* RknpuDev::initialize                                                    *)
(***************************************************************************)
InitializeCall ==
    /\ pc = "idle"
    /\ op' = "initialize"
    /\ pc' = "init_pm_new"
    /\ log' = <<>>
    /\ result' = "none"
    /\ UNCHANGED <<devVars, cacheVars, peerVars, reqVars, locVars>>

\* NonNull::new(self.pm_base).ok_or(InvalidInput)?
InitializePmNew ==
    /\ pc = "init_pm_new"
    /\ IF pm_base = 0
       THEN Finish("InvalidInput")
       ELSE pc' = "init_on_npu1" /\ result' = result
    /\ UNCHANGED <<devVars, cacheVars, peerVars, reqVars, locVars, op, log>>

\* pm.power_domain_on(d).unwrap(): the collaborator reports success or an
\* error, and unwrap panics on the error
PowerDomainOn(at, d, next) ==
    /\ pc = at
    /\ log' = Append(log, PdOn(d))
    /\ \/ pc' = next /\ result' = result
       \/ Panic
    /\ UNCHANGED <<devVars, cacheVars, peerVars, reqVars, locVars, op>>

PowerDomainOff(at, d, next) ==
    /\ pc = at
    /\ log' = Append(log, PdOff(d))
    /\ \/ pc' = next /\ result' = result
       \/ Panic
    /\ UNCHANGED <<devVars, cacheVars, peerVars, reqVars, locVars, op>>

\* mutant: the primary domain is enabled first
InitializeOnNpu1_primary_first ==
    PowerDomainOn("init_on_npu1", NPU, "init_on_npu2")

InitializeOnNpu1 == PowerDomainOn("init_on_npu1", NPU1, "init_on_npu2")
InitializeOnNpu2 == PowerDomainOn("init_on_npu2", NPU2, "init_on_npu")
InitializeOnNpu == PowerDomainOn("init_on_npu", NPU, "init_on_nputop")
InitializeOnNpuTop == PowerDomainOn("init_on_nputop", NPUTOP, "init_version")

\* mutant: the version is read but not compared
check_hardware_version_unchecked(version) == "Ok"

\* check_hardware_version
check_hardware_version(version) ==
    IF version = RK3588_NPU_VERSION THEN "Ok" ELSE "UnsupportedVersion"

InitializeCheckVersion ==
    /\ pc = "init_version"
    /\ \E v \in VersionValues :
          /\ log' = Append(log, RegRead("version", v))
          /\ Finish(check_hardware_version(v))
    /\ UNCHANGED <<devVars, cacheVars, peerVars, reqVars, locVars, op>>

(***************************************************************************)
(* 32-bit arithmetic of the driver.  An overflowing u32 operation aborts   *)
(* the program in a build with overflow checks and wraps in one without:   *)
(* each result carries the wrapped value and whether a check would fire.   *)
(***************************************************************************)
Add32(a, b) ==
    [val |-> Wrap32(WAdd(a, b)), ovf |-> Overflows32(WAdd(a, b))]

Sub32(a, b) ==
    IF WLt(a, b)
    THEN [val |-> WSub(WAdd(a, <<Limb, 0>>), b), ovf |-> TRUE]
    ELSE [val |-> WSub(a, b), ovf |-> FALSE]

\* submit.task_start + submit.task_number - 1
task_end_calc(task_start, task_number) ==
    LET s == Add32(task_start, task_number)
        e == Sub32(s.val, U(1))
    IN  [val |-> e.val, ovf |-> s.ovf \/ e.ovf]

\* (first_regcfg_amount + RKNPU_PC_DATA_EXTRA_AMOUNT + scale - 1) / scale - 1
data_amount_calc(amount, scale) ==
    LET a == Add32(amount, U(RKNPU_PC_DATA_EXTRA_AMOUNT))
        b == Add32(a.val, U(scale))
        c == Sub32(b.val, U(1))
        d == Sub32(WDiv(c.val, scale), U(1))
    IN  [val |-> d.val, ovf |-> a.ovf \/ b.ovf \/ c.ovf \/ d.ovf]

\* mutant: any flag bit turns ping-pong on
task_pp_en_any_flag(flags) == IF flags # U(0) THEN 1 ELSE 0

\* if submit.flags & RKNPU_JOB_PINGPONG != 0 { 1 } else { 0 }
task_pp_en(flags) ==
    IF BitAnd(flags, U(RKNPU_JOB_PINGPONG)) # U(0) THEN 1 ELSE 0

\* ((0x6 | task_pp_en) << pc_task_number_bits) | submit.task_number
pc_task_control(flags, bits, number) ==
    BitOr(Shl(BitOr(U(6), U(task_pp_en(flags))), bits), number)

\* the descriptor at index idx of the array at task_base
ReadTask(idx) ==
    IF idx[1] = 0 /\ idx[2] \in DOMAIN tasks
    THEN {tasks[idx[2]]}
    ELSE GarbageTasks

\* bits 48..63 of the kernel linear map base 0xffff_0000_0000_0000
LinearMapTop == 2 ^ 16 - 1

\* the "dc cvac" loop of dcache_flush_range over [start, start + size); the
\* address is `from` in the 48-bit window whose bits 48..63 are `top`
FlushAt(top, from, len) ==
    [reg |-> "dcache", val |-> from, kind |-> "flush", arg |-> len,
     top |-> top]
Flush(from, len) == FlushAt(LinearMapTop, from, len)
\* the "dc ivac" loop of dcache_invalidate_range
Invalidate(from, len) ==
    [reg |-> "dcache", val |-> from, kind |-> "invalidate", arg |-> len,
     top |-> LinearMapTop]
\* the "dsb ish; isb" that ends both functions
Barrier ==
    [reg |-> "dsb ish; isb", val |-> U(0), kind |-> "barrier", arg |-> 0]

\* regcmd_addr + 0xffff_0000_0000_0000 in u64: bits 48..63 of the sum and
\* whether the addition overflows
reg_addr_kva_top(top) ==
    [val |-> (top + LinearMapTop) % (2 ^ 16),
     ovf |-> top + LinearMapTop >= 2 ^ 16]

(***************************************************************************)
(* RknpuDev::rknpu_submit_ioctl                                            *)
(***************************************************************************)
SubmitCallFrom(reqs) ==
    /\ pc = "idle"
    /\ \E r \in reqs :
          /\ submit' = r.submit
          /\ tasks' = r.tasks
    /\ UNCHANGED action
    /\ op' = "submit"
    /\ pc' = "submit_validate"
    /\ log' = <<>>
    /\ result' = "none"
    /\ UNCHANGED <<devVars, cacheVars, peerVars, locVars>>

SubmitCall == SubmitCallFrom(SubmitReqs)

\* mutant: the task_obj_addr check is missing
submit_validation_no_addr_check(s) ==
    IF s.task_number = U(0) THEN "InvalidInput" ELSE "proceed"

\* the parameter checks at the head of rknpu_submit_ioctl
submit_validation(s) ==
    IF s.task_number = U(0) THEN "InvalidInput"
    ELSE IF s.task_obj_addr = U(0) THEN "InvalidTaskAddress"
    ELSE "proceed"

SubmitValidate ==
    /\ pc = "submit_validate"
    /\ IF submit_validation(submit) # "proceed"
       THEN /\ Finish(submit_validation(submit))
            /\ UNCHANGED task_base
       ELSE /\ \E kva \in XlateResults : task_base' = kva
            /\ pc' = "jc_entry"
            /\ result' = result
    /\ UNCHANGED <<devVars, cacheVars, peerVars, reqVars, op, log, task_end, first_task,
                   last_task, timeout_ms, i, polls, int_status>>

(***************************************************************************)
(* RknpuDev::job_commit_pc                                                 *)
(***************************************************************************)
\* task_base.is_null() check, then the index of the last descriptor
JobCommitEntry ==
    /\ pc = "jc_entry"
    /\ IF task_base = Null
       THEN /\ Finish("InvalidTaskAddress")
            /\ UNCHANGED task_end
       ELSE LET e == task_end_calc(submit.task_start, submit.task_number)
            IN  \/ /\ e.ovf
                   /\ Panic
                   /\ UNCHANGED task_end
                \/ /\ task_end' = e.val
                   /\ pc' = "jc_flush_tasks"
                   /\ result' = result
    /\ UNCHANGED <<devVars, cacheVars, peerVars, reqVars, op, log, task_base, first_task,
                   last_task, timeout_ms, i, polls, int_status>>

\* mutant: the descriptors are handed over without a flush
JobCommitFlushTasks_unflushed ==
    /\ pc = "jc_flush_tasks"
    /\ pc' = "jc_flush_cmd"
    /\ UNCHANGED <<devVars, cacheVars, peerVars, reqVars, locVars, op, log, result>>

\* dcache_flush_range(task_base, 1024)
JobCommitFlushTasks ==
    /\ pc = "jc_flush_tasks"
    /\ log' = log \o <<Flush(task_base, TaskFlushSize), Barrier>>
    /\ pc' = "jc_flush_cmd"
    /\ UNCHANGED <<devVars, cacheVars, peerVars, reqVars, locVars, op, result>>

\* read first_task.regcmd_addr; dcache_flush_range(reg_addr_kva, 8 MiB)
JobCommitFlushCmd ==
    /\ pc = "jc_flush_cmd"
    /\ \E d \in ReadTask(submit.task_start) :
          LET kva == reg_addr_kva_top(d.regcmd_top)
          IN  /\ first_task' = d
              /\ \/ /\ kva.ovf
                    /\ Panic
                    /\ UNCHANGED log
                 \/ /\ log' = log \o <<FlushAt(kva.val, d.regcmd_addr,
                                               CmdFlushSize), Barrier>>
                    /\ pc' = "jc_read"
                    /\ result' = result
    /\ UNCHANGED <<devVars, cacheVars, peerVars, reqVars, op, task_base, task_end,
                   last_task, timeout_ms, i, polls, int_status>>

\* mutant: the interrupt mask is taken from the first descriptor
JobCommitRead_first_only ==
    /\ pc = "jc_read"
    /\ last_task' = first_task
    /\ pc' = "jc_mode"
    /\ UNCHANGED <<devVars, cacheVars, peerVars, reqVars, op, log, result, task_base,
                   task_end, first_task, timeout_ms, i, polls, int_status>>

\* read last_task.int_mask
JobCommitRead ==
    /\ pc = "jc_read"
    /\ \E d \in (IF task_end = submit.task_start
                 THEN {first_task} ELSE ReadTask(task_end)) :
          last_task' = d
    /\ pc' = "jc_mode"
    /\ UNCHANGED <<devVars, cacheVars, peerVars, reqVars, op, log, result, task_base, task_end,
                   first_task, timeout_ms, i, polls, int_status>>

\* self.core_regs().<reg>.set(val)
JobCommitWrite(at, reg, val, next) ==
    /\ pc = at
    /\ log' = Append(log, RegWrite(reg, val))
    /\ pc' = next
    /\ UNCHANGED <<devVars, cacheVars, peerVars, reqVars, locVars, op, result>>

JobCommitMode == JobCommitWrite("jc_mode", "pc_data_addr", U(1), "jc_addr")

JobCommitAddr ==
    JobCommitWrite("jc_addr", "pc_data_addr",
                   Wrap32(first_task.regcmd_addr), "jc_amount")

JobCommitAmount ==
    /\ pc = "jc_amount"
    /\ LET a == data_amount_calc(first_task.regcfg_amount,
                                 config.pc_data_amount_scale)
       IN  \/ /\ a.ovf
              /\ Panic
              /\ UNCHANGED log
           \/ /\ log' = Append(log, RegWrite("pc_data_amount", a.val))
              /\ pc' = "jc_int_mask"
              /\ result' = result
    /\ UNCHANGED <<devVars, cacheVars, peerVars, reqVars, locVars, op>>

\* mutant: the interrupt clear is written in the interrupt-mask slot
JobCommitIntMask_as_clear ==
    JobCommitWrite("jc_int_mask", "int_clear", first_task.int_clear,
                   "jc_int_clear")

JobCommitIntMask ==
    JobCommitWrite("jc_int_mask", "int_mask", last_task.int_mask,
                   "jc_int_clear")

JobCommitIntClear ==
    JobCommitWrite("jc_int_clear", "int_clear", first_task.int_clear,
                   "jc_task_control")

JobCommitTaskControl ==
    JobCommitWrite("jc_task_control", "pc_task_control",
                   pc_task_control(submit.flags, config.pc_task_number_bits,
                                   submit.task_number),
                   "jc_op_en_1")

\* mutant: the wait starts on the rising edge of the enable pulse
JobCommitOpEn1_starts_polling ==
    JobCommitWrite("jc_op_en_1", "pc_op_en", U(1), "wj_poll")

JobCommitOpEn1 == JobCommitWrite("jc_op_en_1", "pc_op_en", U(1), "jc_op_en_0")

JobCommitOpEn0 ==
    JobCommitWrite("jc_op_en_0", "pc_op_en", U(0), "submit_timeout")

\* mutant: a zero timeout is taken as it is
effective_timeout_no_default(t) == t

\* back in rknpu_submit_ioctl: the effective timeout
effective_timeout(t) == IF t > 0 THEN t ELSE DefaultTimeoutMs

SubmitTimeout ==
    /\ pc = "submit_timeout"
    /\ timeout_ms' = effective_timeout(submit.timeout)
    /\ pc' = "wj_poll"
    /\ UNCHANGED <<devVars, cacheVars, peerVars, reqVars, op, log, result, task_base, task_end,
                   first_task, last_task, i, polls, int_status>>

(***************************************************************************)
(* RknpuDev::wait_job_done                                                 *)
(***************************************************************************)
\* mutant: one iteration too many
max_iterations_off_by_one(t) == t * PollsPerMs + 1

max_iterations(t) == t * PollsPerMs

\* mutant: the earlier policy, any nonzero status is a completion
is_completion_nonzero(s) == s # U(0)

\* if int_status == 0x100 || int_status == 0x200
is_completion(s) == s = U(256) \/ s = U(512)

\* one iteration of the loop: read int_status and test it
WaitPollFrom(statuses) ==
    /\ pc = "wj_poll"
    /\ i < max_iterations(timeout_ms)
    /\ \E s \in statuses :
          /\ int_status' = s
          /\ polls' = polls + 1
          /\ IF is_completion(s)
             THEN pc' = "wj_invalidate" /\ i' = i
             ELSE pc' = "wj_poll" /\ i' = i + 1
    /\ UNCHANGED <<devVars, cacheVars, peerVars, reqVars, op, log, result, task_base, task_end,
                   first_task, last_task, timeout_ms>>

WaitPoll == WaitPollFrom(StatusValues)

\* mutant: the timeout path clears the interrupts
WaitTimeout_clears ==
    /\ pc = "wj_poll"
    /\ ~(i < max_iterations(timeout_ms))
    /\ log' = Append(log, RegWrite("int_clear", INT_CLEAR_VALUE))
    /\ Finish("TaskTimeout")
    /\ UNCHANGED <<devVars, cacheVars, peerVars, reqVars, locVars, op>>

\* the loop is exhausted
WaitTimeout ==
    /\ pc = "wj_poll"
    /\ ~(i < max_iterations(timeout_ms))
    /\ Finish("TaskTimeout")
    /\ UNCHANGED <<devVars, cacheVars, peerVars, reqVars, locVars, op, log>>

\* dcache_invalidate_range(pool_start, 8 MiB), pool_start = task_base - 0x1000
WaitInvalidate ==
    /\ pc = "wj_invalidate"
    /\ log' = log \o <<Invalidate(WSub(task_base, U(PoolOffset)),
                                   CmdFlushSize), Barrier>>
    /\ pc' = "wj_clear"
    /\ UNCHANGED <<devVars, cacheVars, peerVars, reqVars, locVars, op, result>>

\* mutant: the completion path clears every interrupt bit
WaitClear_all_ones ==
    /\ pc = "wj_clear"
    /\ log' = Append(log, RegWrite("int_clear", INT_CLEAR_VALUE))
    /\ Finish("Ok")
    /\ UNCHANGED <<devVars, cacheVars, peerVars, reqVars, locVars, op>>

\* self.core_regs().int_clear.set(int_status); return Ok(())
WaitClear ==
    /\ pc = "wj_clear"
    /\ log' = Append(log, RegWrite("int_clear", int_status))
    /\ Finish("Ok")
    /\ UNCHANGED <<devVars, cacheVars, peerVars, reqVars, locVars, op>>

(***************************************************************************)
(* RknpuDev::handle_irq                                                    *)
(***************************************************************************)
HandleIrqCall ==
    /\ pc = "idle"
    /\ op' = "handle_irq"
    /\ pc' = "irq_read"
    /\ log' = <<>>
    /\ result' = "none"
    /\ UNCHANGED <<devVars, cacheVars, peerVars, reqVars, locVars>>

HandleIrqRead ==
    /\ pc = "irq_read"
    /\ \E s \in StatusValues :
          /\ int_status' = s
          /\ log' = Append(log, RegRead("int_status", s))
          /\ IF s # U(0)
             THEN pc' = "irq_clear" /\ result' = result
             ELSE Finish("NoInterrupt")
    /\ UNCHANGED <<devVars, cacheVars, peerVars, reqVars, op, task_base, task_end, first_task,
                   last_task, timeout_ms, i, polls>>

\* mutant: the handler clears every interrupt bit
HandleIrqClear_all_ones ==
    /\ pc = "irq_clear"
    /\ log' = Append(log, RegWrite("int_clear", INT_CLEAR_VALUE))
    /\ Finish("Ok")
    /\ UNCHANGED <<devVars, cacheVars, peerVars, reqVars, locVars, op>>

\* self.core_regs().int_clear.set(int_status); Ok(int_status)
HandleIrqClear ==
    /\ pc = "irq_clear"
    /\ log' = Append(log, RegWrite("int_clear", int_status))
    /\ Finish("Ok")
    /\ UNCHANGED <<devVars, cacheVars, peerVars, reqVars, locVars, op>>

(***************************************************************************)
(* RknpuDev::rknpu_action_ioctl                                            *)
(***************************************************************************)
ActionCall ==
    /\ pc = "idle"
    /\ \E f \in ActionFlags, v \in ActionValues :
          action' = RknpuAction(f, v)
    /\ op' = "action"
    /\ pc' = "action_match"
    /\ log' = <<>>
    /\ result' = "none"
    /\ UNCHANGED <<devVars, cacheVars, peerVars, submit, tasks, locVars>>

\* impl From<u32> for RknpuActionFlag: panics outside 0..23
action_flag_valid(f) == f[1] = 0 /\ f[2] <= 23

ActionMatch ==
    /\ pc = "action_match"
    /\ IF ~action_flag_valid(action.flags)
       THEN Panic /\ UNCHANGED <<log, action>>
       ELSE IF action.flags = U(0)
       THEN \E v \in VersionValues :
               /\ log' = Append(log, RegRead("version", v))
               /\ action' = [action EXCEPT !.value = v]
               /\ Finish("Ok")
       ELSE IF action.flags = U(6)
       THEN Finish("Ok") /\ UNCHANGED <<log, action>>
       ELSE Finish("InvalidInput") /\ UNCHANGED <<log, action>>
    /\ UNCHANGED <<devVars, cacheVars, peerVars, submit, tasks, locVars, op>>

(***************************************************************************)
(* RknpuDev::soft_reset                                                    *)
(***************************************************************************)
SoftResetCall ==
    /\ pc = "idle"
    /\ op' = "soft_reset"
    /\ pc' = "sr_clear_int"
    /\ log' = <<>>
    /\ result' = "none"
    /\ UNCHANGED <<devVars, cacheVars, peerVars, reqVars, locVars>>

\* a step of soft_reset that records one side effect and goes on
SoftResetStep(at, effect, next) ==
    /\ pc = at
    /\ log' = Append(log, effect)
    /\ pc' = next
    /\ UNCHANGED <<devVars, cacheVars, peerVars, reqVars, locVars, op, result>>

\* clear_interrupts
SoftResetClearInt ==
    SoftResetStep("sr_clear_int", RegWrite("int_clear", INT_CLEAR_VALUE),
                  "sr_axi_set")

\* (1 << (reset_bit + WRITE_MASK_SHIFT)) | (1 << reset_bit)
reset_set_value(bit) ==
    BitOr(Shl(U(1), bit + WRITE_MASK_SHIFT), Shl(U(1), bit))

\* mutant: the deassert write enables every reset bit
reset_clear_value_all_enabled(bit) ==
    BitOr(Shl(U(65535), WRITE_MASK_SHIFT), Shl(U(0), bit))

\* (1 << (reset_bit + WRITE_MASK_SHIFT)) | (0 << reset_bit)
reset_clear_value(bit) ==
    BitOr(Shl(U(1), bit + WRITE_MASK_SHIFT), Shl(U(0), bit))

\* reset_axi
ResetAxiSet ==
    SoftResetStep("sr_axi_set",
                  RegWrite("softrst_con_npu", reset_set_value(NPU0_AXI_SRST)),
                  "sr_axi_hold")
ResetAxiHold == SoftResetStep("sr_axi_hold", Delay(10), "sr_axi_clear")
ResetAxiClear ==
    SoftResetStep("sr_axi_clear",
                  RegWrite("softrst_con_npu",
                           reset_clear_value(NPU0_AXI_SRST)),
                  "sr_axi_settle")
\* mutant: the AHB pulse is left out
ResetAxiSettle_skips_ahb ==
    SoftResetStep("sr_axi_settle", Delay(5), "sr_wait")

ResetAxiSettle == SoftResetStep("sr_axi_settle", Delay(5), "sr_ahb_set")

\* reset_ahb
ResetAhbSet ==
    SoftResetStep("sr_ahb_set",
                  RegWrite("softrst_con_npu", reset_set_value(NPU0_AHB_SRST)),
                  "sr_ahb_hold")
ResetAhbHold == SoftResetStep("sr_ahb_hold", Delay(10), "sr_ahb_clear")
ResetAhbClear ==
    SoftResetStep("sr_ahb_clear",
                  RegWrite("softrst_con_npu",
                           reset_clear_value(NPU0_AHB_SRST)),
                  "sr_ahb_settle")
ResetAhbSettle == SoftResetStep("sr_ahb_settle", Delay(5), "sr_wait")

SoftResetWait == SoftResetStep("sr_wait", Delay(10), "sr_pm_new")

\* NonNull::new(self.pm_base).ok_or(InvalidInput)?
SoftResetPmNew ==
    /\ pc = "sr_pm_new"
    /\ IF pm_base = 0
       THEN Finish("InvalidInput")
       ELSE pc' = "sr_off_1" /\ result' = result
    /\ UNCHANGED <<devVars, cacheVars, peerVars, reqVars, locVars, op, log>>

SoftResetOff1 == PowerDomainOff("sr_off_1", NPU1, "sr_off_2")
SoftResetOff2 == PowerDomainOff("sr_off_2", NPU2, "sr_off_3")
SoftResetOff3 == PowerDomainOff("sr_off_3", NPU, "sr_off_4")
SoftResetOff4 == PowerDomainOff("sr_off_4", NPUTOP, "sr_power_wait")

SoftResetPowerWait == SoftResetStep("sr_power_wait", Delay(1000), "sr_on_1")

SoftResetOn1 == PowerDomainOn("sr_on_1", NPUTOP, "sr_on_2")
SoftResetOn2 == PowerDomainOn("sr_on_2", NPU, "sr_on_3")
SoftResetOn3 == PowerDomainOn("sr_on_3", NPU1, "sr_on_4")
SoftResetOn4 == PowerDomainOn("sr_on_4", NPU2, "sr_finish")

SoftResetFinish ==
    /\ pc = "sr_finish"
    /\ Finish("Ok")
    /\ UNCHANGED <<devVars, cacheVars, peerVars, reqVars, locVars, op, log>>

(***************************************************************************)
(* Return to the caller, who may issue the next call.                      *)
(***************************************************************************)
Return ==
    /\ pc = "done"
    /\ pc' = "idle"
    /\ op' = "none"
    /\ log' = <<>>
    /\ result' = "none"
    /\ submit' = NoSubmit
    /\ tasks' = NoTasks
    /\ action' = NoAction
    /\ task_base' = Null
    /\ task_end' = U(0)
    /\ first_task' = NoDescriptor
    /\ last_task' = NoDescriptor
    /\ timeout_ms' = 0
    /\ i' = 0
    /\ polls' = 0
    /\ int_status' = U(0)
    /\ UNCHANGED <<devVars, cacheVars, peerVars>>

Next ==
    \/ InitializeCall
    \/ InitializePmNew
    \/ InitializeOnNpu1
    \/ InitializeOnNpu2
    \/ InitializeOnNpu
    \/ InitializeOnNpuTop
    \/ InitializeCheckVersion
    \/ SubmitCall
    \/ SubmitValidate
    \/ JobCommitEntry
    \/ JobCommitFlushTasks
    \/ JobCommitFlushCmd
    \/ JobCommitRead
    \/ JobCommitMode
    \/ JobCommitAddr
    \/ JobCommitAmount
    \/ JobCommitIntMask
    \/ JobCommitIntClear
    \/ JobCommitTaskControl
    \/ JobCommitOpEn1
    \/ JobCommitOpEn0
    \/ SubmitTimeout
    \/ WaitPoll
    \/ WaitTimeout
    \/ WaitInvalidate
    \/ WaitClear
    \/ HandleIrqCall
    \/ HandleIrqRead
    \/ HandleIrqClear
    \/ ActionCall
    \/ ActionMatch
    \/ SoftResetCall
    \/ SoftResetClearInt
    \/ ResetAxiSet
    \/ ResetAxiHold
    \/ ResetAxiClear
    \/ ResetAxiSettle
    \/ ResetAhbSet
    \/ ResetAhbHold
    \/ ResetAhbClear
    \/ ResetAhbSettle
    \/ SoftResetWait
    \/ SoftResetPmNew
    \/ SoftResetOff1
    \/ SoftResetOff2
    \/ SoftResetOff3
    \/ SoftResetOff4
    \/ SoftResetPowerWait
    \/ SoftResetOn1
    \/ SoftResetOn2
    \/ SoftResetOn3
    \/ SoftResetOn4
    \/ SoftResetFinish
    \/ Return

Spec == Init /\ [][Next]_vars

(***************************************************************************)
(* A second specification for the termination of the wait: one valid       *)
(* submission shape, every board, every timeout within the bound.  The     *)
(* poll loop runs on the caller's thread and never blocks, so each of its  *)
(* steps is taken once it is enabled (weak fairness).                      *)
(***************************************************************************)
WaitReqs ==
    {[submit |-> SubmitRequest(TaskObjAddr, U(0), U(1), U(0), t),
      tasks |-> TaskImage(U(50), 0)] : t \in 1..MaxTimeout}

SubmitCallWait == SubmitCallFrom(WaitReqs)

NextWait ==
    \/ SubmitCallWait
    \/ SubmitValidate
    \/ JobCommitEntry
    \/ JobCommitFlushTasks
    \/ JobCommitFlushCmd
    \/ JobCommitRead
    \/ JobCommitMode
    \/ JobCommitAddr
    \/ JobCommitAmount
    \/ JobCommitIntMask
    \/ JobCommitIntClear
    \/ JobCommitTaskControl
    \/ JobCommitOpEn1
    \/ JobCommitOpEn0
    \/ SubmitTimeout
    \/ WaitPoll
    \/ WaitTimeout
    \/ WaitInvalidate
    \/ WaitClear
    \/ Return

SpecWait ==
    /\ Init
    /\ [][NextWait]_vars
    /\ WF_vars(SubmitTimeout)
    /\ WF_vars(WaitPoll)
    /\ WF_vars(WaitTimeout)
    /\ WF_vars(WaitInvalidate)
    /\ WF_vars(WaitClear)

(***************************************************************************)
(* A third specification for the default timeout: one device, one valid    *)
(* request shape whose timeout field is 0 or within the bound, and an      *)
(* accelerator that shows no status or the first completion code.          *)
(***************************************************************************)
DefaultReqs ==
    {[submit |-> SubmitRequest(TaskObjAddr, U(0), U(1), U(0), t),
      tasks |-> TaskImage(U(50), 0)] : t \in 0..MaxTimeout}

InitDefault == InitWith({"Rk3588"}, {1}, {TRUE})

SubmitCallDefault == SubmitCallFrom(DefaultReqs)

WaitPollDefault == WaitPollFrom({U(0), U(256)})

NextDefault ==
    \/ SubmitCallDefault
    \/ SubmitValidate
    \/ JobCommitEntry
    \/ JobCommitFlushTasks
    \/ JobCommitFlushCmd
    \/ JobCommitRead
    \/ JobCommitMode
    \/ JobCommitAddr
    \/ JobCommitAmount
    \/ JobCommitIntMask
    \/ JobCommitIntClear
    \/ JobCommitTaskControl
    \/ JobCommitOpEn1
    \/ JobCommitOpEn0
    \/ SubmitTimeout
    \/ WaitPollDefault
    \/ WaitTimeout
    \/ WaitInvalidate
    \/ WaitClear
    \/ Return

SpecDefault == InitDefault /\ [][NextDefault]_vars

(***************************************************************************)
(* A fourth specification with a second caller of rknpu_submit_ioctl on    *)
(* the same device.  The method takes &self and RknpuDev holds no lock:    *)
(* whether two calls overlap is decided by the callers alone.  The second  *)
(* caller submits a valid one-task request and runs the same statements.   *)
(***************************************************************************)
\* the statements of an accepted submission, in program order
PeerPath ==
    <<"submit_validate", "jc_entry", "jc_flush_tasks", "jc_flush_cmd",
      "jc_read", "jc_mode", "jc_addr", "jc_amount", "jc_int_mask",
      "jc_int_clear", "jc_task_control", "jc_op_en_1", "jc_op_en_0",
      "submit_timeout", "wj_poll">>

\* the timeout of the second caller's request
PeerTimeoutMs == 1

\* mutant: the second caller enters whatever the first is doing
PeerSubmitCall_unguarded ==
    /\ peer_pc = "idle"
    /\ peer_pc' = PeerPath[1]
    /\ peer_i' = 0
    /\ UNCHANGED <<devVars, cacheVars, reqVars, locVars, op, pc, log, result,
                   serialized>>

\* the second caller enters rknpu_submit_ioctl; callers that serialize do
\* so only while no other call is running
PeerSubmitCall ==
    /\ peer_pc = "idle"
    /\ serialized => pc = "idle"
    /\ peer_pc' = PeerPath[1]
    /\ peer_i' = 0
    /\ UNCHANGED <<devVars, cacheVars, reqVars, locVars, op, pc, log, result,
                   serialized>>

\* the next statement of the second caller, up to the poll loop
PeerStep ==
    /\ \E k \in 1..(Len(PeerPath) - 1) :
          /\ peer_pc = PeerPath[k]
          /\ peer_pc' = PeerPath[k + 1]
    /\ UNCHANGED <<devVars, cacheVars, reqVars, locVars, op, pc, log, result,
                   peer_i, serialized>>

\* one iteration of the second caller's wait_job_done loop
PeerWaitPoll ==
    /\ peer_pc = "wj_poll"
    /\ peer_i < max_iterations(effective_timeout(PeerTimeoutMs))
    /\ \E s \in StatusValues :
          IF is_completion(s)
          THEN peer_pc' = "wj_invalidate" /\ peer_i' = peer_i
          ELSE peer_pc' = "wj_poll" /\ peer_i' = peer_i + 1
    /\ UNCHANGED <<devVars, cacheVars, reqVars, locVars, op, pc, log, result,
                   serialized>>

PeerWaitTimeout ==
    /\ peer_pc = "wj_poll"
    /\ ~(peer_i < max_iterations(effective_timeout(PeerTimeoutMs)))
    /\ peer_pc' = "done"
    /\ UNCHANGED <<devVars, cacheVars, reqVars, locVars, op, pc, log, result,
                   peer_i, serialized>>

PeerWaitInvalidate ==
    /\ peer_pc = "wj_invalidate"
    /\ peer_pc' = "wj_clear"
    /\ UNCHANGED <<devVars, cacheVars, reqVars, locVars, op, pc, log, result,
                   peer_i, serialized>>

PeerWaitClear ==
    /\ peer_pc = "wj_clear"
    /\ peer_pc' = "done"
    /\ UNCHANGED <<devVars, cacheVars, reqVars, locVars, op, pc, log, result,
                   peer_i, serialized>>

PeerReturn ==
    /\ peer_pc = "done"
    /\ peer_pc' = "idle"
    /\ peer_i' = 0
    /\ UNCHANGED <<devVars, cacheVars, reqVars, locVars, op, pc, log, result,
                   serialized>>

\* the first caller enters rknpu_submit_ioctl under the same discipline
SubmitCallTwo ==
    /\ serialized => peer_pc = "idle"
    /\ SubmitCallFrom(WaitReqs)

InitTwo == InitWith({"Rk3588"}, {1}, BOOLEAN)

NextTwo ==
    \/ SubmitCallTwo
    \/ SubmitValidate
    \/ JobCommitEntry
    \/ JobCommitFlushTasks
    \/ JobCommitFlushCmd
    \/ JobCommitRead
    \/ JobCommitMode
    \/ JobCommitAddr
    \/ JobCommitAmount
    \/ JobCommitIntMask
    \/ JobCommitIntClear
    \/ JobCommitTaskControl
    \/ JobCommitOpEn1
    \/ JobCommitOpEn0
    \/ SubmitTimeout
    \/ WaitPoll
    \/ WaitTimeout
    \/ WaitInvalidate
    \/ WaitClear
    \/ Return
    \/ PeerSubmitCall
    \/ PeerStep
    \/ PeerWaitPoll
    \/ PeerWaitTimeout
    \/ PeerWaitInvalidate
    \/ PeerWaitClear
    \/ PeerReturn

SpecTwo == InitTwo /\ [][NextTwo]_vars

(***************************************************************************)
(* A fifth specification: dcache_flush_range and dcache_invalidate_range,  *)
(* statement by statement.  Addresses are usize (64 bits); the model keeps *)
(* the low end of the address space and its last Window bytes, so that     *)
(* start + size and addr += 64 can pass 2^64.                              *)
(***************************************************************************)
CacheLineSize == 64

\* the bytes of the address space below 2^64 that the model keeps
Window == (MaxLines + 1) * CacheLineSize

\* a + n in usize: the wrapped sum and whether the addition overflows
AddrAdd(a, n) ==
    IF a.top /\ a.x + n >= Window
    THEN [val |-> Address(FALSE, a.x + n - Window), ovf |-> TRUE]
    ELSE [val |-> Address(a.top, a.x + n), ovf |-> FALSE]

AddrLt(a, b) == (~a.top /\ b.top) \/ (a.top = b.top /\ a.x < b.x)

\* start & !0x3F (Window is a multiple of the line size)
AlignDown(a) == Address(a.top, a.x - (a.x % CacheLineSize))

LineOp(ins, at) == [at |-> at, ins |-> ins]
BarrierOp == [at |-> Address(FALSE, 0), ins |-> "dsb ish; isb"]

CacheStarts ==
    {Address(t, x) :
        t \in BOOLEAN,
        x \in {0, 1, CacheLineSize - 1, CacheLineSize, CacheLineSize + 1,
               Window - CacheLineSize, Window - 1}}

CacheSizes ==
    {0, 1, CacheLineSize - 1, CacheLineSize, CacheLineSize + 1,
     MaxLines * CacheLineSize}

\* the loop is followed for at most this many line instructions
MaxLineOps == MaxLines + 3

\* a call of one of the two functions: let mut addr = start & !0x3F
CacheCall ==
    /\ cache_pc = "idle"
    /\ \E ins \in {"dc cvac", "dc ivac"}, s \in CacheStarts,
          n \in CacheSizes :
          /\ cache_op' = ins
          /\ start' = s
          /\ size' = n
          /\ addr' = AlignDown(s)
    /\ cache_pc' = "end"
    /\ maint' = <<>>
    /\ UNCHANGED <<devVars, peerVars, reqVars, locVars, op, pc, log, result,
                   end>>

\* let end = start + size
CacheEnd ==
    /\ cache_pc = "end"
    /\ LET e == AddrAdd(start, size)
       IN  \/ /\ e.ovf
              /\ cache_pc' = "panicked"
              /\ UNCHANGED end
           \/ /\ end' = e.val
              /\ cache_pc' = "loop"
    /\ UNCHANGED <<devVars, peerVars, reqVars, locVars, op, pc, log, result,
                   cache_op, start, size, addr, maint>>

\* while addr < end { dc cvac / dc ivac, addr; addr += 64 }
CacheLoopBody ==
    /\ cache_pc = "loop"
    /\ AddrLt(addr, end)
    /\ Len(maint) < MaxLineOps
    /\ maint' = Append(maint, LineOp(cache_op, addr))
    /\ LET a == AddrAdd(addr, CacheLineSize)
       IN  \/ /\ a.ovf
              /\ cache_pc' = "panicked"
              /\ UNCHANGED addr
           \/ /\ addr' = a.val
              /\ cache_pc' = "loop"
    /\ UNCHANGED <<devVars, peerVars, reqVars, locVars, op, pc, log, result,
                   cache_op, start, size, end>>

\* the loop condition fails
CacheLoopExit ==
    /\ cache_pc = "loop"
    /\ ~AddrLt(addr, end)
    /\ cache_pc' = "barrier"
    /\ UNCHANGED <<devVars, peerVars, reqVars, locVars, op, pc, log, result,
                   cache_op, start, size, addr, end, maint>>

\* dsb ish; isb
CacheBarrier ==
    /\ cache_pc = "barrier"
    /\ maint' = Append(maint, BarrierOp)
    /\ cache_pc' = "done"
    /\ UNCHANGED <<devVars, peerVars, reqVars, locVars, op, pc, log, result,
                   cache_op, start, size, addr, end>>

CacheReturn ==
    /\ cache_pc = "done"
    /\ cache_pc' = "idle"
    /\ cache_op' = "none"
    /\ start' = Address(FALSE, 0)
    /\ size' = 0
    /\ addr' = Address(FALSE, 0)
    /\ end' = Address(FALSE, 0)
    /\ maint' = <<>>
    /\ UNCHANGED <<devVars, peerVars, reqVars, locVars, op, pc, log, result>>

InitCache == InitWith({"Rk3588"}, {1}, {TRUE})

NextCache ==
    \/ CacheCall
    \/ CacheEnd
    \/ CacheLoopBody
    \/ CacheLoopExit
    \/ CacheBarrier
    \/ CacheReturn

SpecCache == InitCache /\ [][NextCache]_vars

(***************************************************************************)
(* Helpers of the properties.                                              *)
(***************************************************************************)
Regs(ws) == [k \in 1..Len(ws) |-> ws[k].reg]
Vals(ws) == [k \in 1..Len(ws) |-> ws[k].val]

\* bit k (0..31) of a u32
Bit(w, k) ==
    IF k < 16 THEN (w[2] \div Pow2(k)) % 2 ELSE (w[1] \div Pow2(k - 16)) % 2

InSubmit == op = "submit"

\* the request passed the checks and was translated to a non-null base
SubmitAccepted ==
    /\ submit.task_number # U(0)
    /\ submit.task_obj_addr # U(0)
    /\ task_base # Null

\* C1: a submission with task_number = 0 returns InvalidInput; one that
\* passes that check but has task_obj_addr = 0, or whose translated task
\* base is null, returns InvalidTaskAddress; a rejected call performs no
\* register write and no cache maintenance (its log stays empty) and never
\* goes past the checks.
C1_RejectedSubmitTouchesNothing ==
    InSubmit =>
      /\ (log # <<>> \/ pc \notin {"submit_validate", "jc_entry", "done"})
            => SubmitAccepted
      /\ (pc = "done" /\ submit.task_number = U(0))
            => result = "InvalidInput"
      /\ (pc = "done" /\ submit.task_number # U(0)
            /\ (submit.task_obj_addr = U(0) \/ task_base = Null))
            => result = "InvalidTaskAddress"
      /\ (pc = "done" /\ result \in {"InvalidInput", "InvalidTaskAddress"})
            => log = <<>>

C1_Witness ==
    /\ InSubmit
    /\ pc = "done"
    /\ result = "InvalidTaskAddress"
    /\ submit.task_obj_addr = U(0)
    /\ log = <<>>

ProgrammingOrder ==
    <<"pc_data_addr", "pc_data_addr", "pc_data_amount", "int_mask",
      "int_clear", "pc_task_control", "pc_op_en", "pc_op_en">>

PollingReached ==
    \/ pc \in {"wj_poll", "wj_invalidate", "wj_clear"}
    \/ pc = "done" /\ result \in {"Ok", "TaskTimeout"}

\* C2: the register writes of a submission are, in this order and with no
\* other write in between: pc_data_addr := 1, pc_data_addr := low 32 bits of
\* the first descriptor's command address, pc_data_amount, int_mask,
\* int_clear, pc_task_control, pc_op_en := 1, pc_op_en := 0; all eight have
\* been written, and nothing else, when polling starts.
C2_RegisterOrder ==
    InSubmit =>
      LET ws == Writes(log)
          n == Len(ws)
      IN  /\ \/ IsPrefix(Regs(ws), ProgrammingOrder)
             \/ IsPrefix(ProgrammingOrder, Regs(ws))
          /\ n >= 1 => ws[1].val = <<0, 1>>
          /\ n >= 2 => /\ ws[2].val[1] = first_task.regcmd_addr[1] % 65536
                       /\ ws[2].val[2] = first_task.regcmd_addr[2]
          /\ n >= 7 => ws[7].val = <<0, 1>>
          /\ n >= 8 => ws[8].val = <<0, 0>>
          /\ PollingReached => n >= 8
          /\ pc = "wj_poll" => n = 8

C2_Witness ==
    /\ InSubmit
    /\ pc = "wj_poll"
    /\ polls = 0
    /\ Regs(Writes(log)) = ProgrammingOrder
    /\ first_task.regcmd_addr = <<65537, 4096>>

CompletionCodes == {<<0, 256>>, <<0, 512>>}

C4_PollBudget ==
    InSubmit =>
      /\ polls <= timeout_ms * 100
      /\ (pc = "done" /\ PollingReached /\ int_status \notin CompletionCodes)
            => (result = "TaskTimeout" /\ polls = timeout_ms * 100)
      /\ (pc = "done" /\ result = "TaskTimeout") => polls = timeout_ms * 100

C4_WaitTerminates ==
    /\ []C4_PollBudget
    /\ (pc = "wj_poll") ~> (pc = "done")

C4_Witness ==
    /\ InSubmit
    /\ pc = "done"
    /\ result = "TaskTimeout"
    /\ timeout_ms >= 1
    /\ polls = timeout_ms * 100

InInitialize == op = "initialize"

InitializeOrder == <<PdOn(10), PdOn(11), PdOn(8), PdOn(9)>>

\* C5: initialize turns the domains on in the order NPU1 (10), NPU2 (11),
\* NPU (8), NPUTOP (9), and issues no other power-domain call.
C5_InitializePowerOrder ==
    InInitialize =>
      /\ IsPrefix(PdOps(log), InitializeOrder)
      /\ (pc = "done" /\ result \in {"Ok", "UnsupportedVersion"})
            => PdOps(log) = InitializeOrder

C5_Witness ==
    /\ InInitialize
    /\ pc = "done"
    /\ result = "Ok"
    /\ PdOps(log) = InitializeOrder

InSoftReset == op = "soft_reset"

\* C6 (as claimed): soft_reset turns the four domains off in the reverse of
\* initialize's order (9, 8, 11, 10) and back on in initialize's order
\* (10, 11, 8, 9).
C6_SoftResetPowerOrder ==
    InSoftReset =>
      /\ IsPrefix(PdOps(log),
                  <<PdOff(9), PdOff(8), PdOff(11), PdOff(10)>>
                      \o InitializeOrder)
      /\ (pc = "done" /\ result = "Ok") => Len(PdOps(log)) = 8

IsResetWrite(e) == e.kind = "w" /\ e.reg = "softrst_con_npu"

ResetWrites(l) == SelectSeq(l, IsResetWrite)

\* C7: the writes to softrst_con_npu are (1<<16)|1, (1<<16)|0 for the AXI
\* bit 0 and (1<<17)|2, (1<<17)|0 for the AHB bit 1, in this order; every
\* assert write is followed by a delay and then by the deassert write with
\* the same single enable bit in the high half.
C7_ResetPulseEncoding ==
    InSoftReset =>
      /\ IsPrefix(Vals(ResetWrites(log)),
                  << <<1, 1>>, <<1, 0>>, <<2, 2>>, <<2, 0>> >>)
      /\ \A k \in 1..Len(log) :
            (IsResetWrite(log[k]) /\ log[k].val[2] # 0)
               => /\ k + 1 <= Len(log) => log[k + 1].kind = "delay"
                  /\ k + 2 <= Len(log)
                        => log[k + 2] =
                              RegWrite("softrst_con_npu",
                                       <<log[k].val[1], 0>>)
      /\ (pc \notin {"sr_clear_int", "sr_axi_set", "sr_axi_hold",
                     "sr_axi_clear", "sr_axi_settle", "sr_ahb_set",
                     "sr_ahb_hold", "sr_ahb_clear"})
            => Len(ResetWrites(log)) = 4

C7_Witness ==
    /\ InSoftReset
    /\ pc = "sr_wait"
    /\ Len(ResetWrites(log)) = 4

\* ceil(a / d) - 1 over the integers, for a >= 1
CeilDivMinus1(a, d) ==
    LET q == WDiv(a, d)
        r == ((a[1] % d) * 65536 + a[2]) % d
    IN  IF r = 0 THEN WSub(q, <<0, 1>>) ELSE q

\* C8 (as claimed): the value written to pc_data_amount equals
\* ceil((regcfg_amount + 4) / scale) - 1 over the integers for every
\* first-descriptor regcfg_amount, and the computation never aborts.
C8_DataAmountMatchesFormula ==
    InSubmit =>
      /\ Len(Writes(log)) >= 3
            => Writes(log)[3].val =
                  CeilDivMinus1(WAdd(first_task.regcfg_amount, <<0, 4>>),
                                config.pc_data_amount_scale)
      /\ ~(pc = "panicked" /\ Len(Writes(log)) = 2)

\* C9: the value written to pc_task_control has, bit by bit, task_number
\* OR-ed with the three-bit field 0b11p placed at bit position
\* pc_task_number_bits, where p is bit 2 (the ping-pong flag) of
\* submit.flags; no other bit of flags enters.
C9_TaskControlEncoding ==
    (InSubmit /\ Len(Writes(log)) >= 6) =>
      LET v == Writes(log)[6].val
          w == config.pc_task_number_bits
          mode == 6 + Bit(submit.flags, 2)
          ModeBit(k) ==
              IF k >= w /\ k - w <= 2 THEN (mode \div Pow2(k - w)) % 2 ELSE 0
      IN  /\ w \in {12, 16}
          /\ \A k \in 0..31 :
                Bit(v, k) = IF Bit(submit.task_number, k) = 1
                                 \/ ModeBit(k) = 1
                            THEN 1 ELSE 0

C9_Witness ==
    /\ InSubmit
    /\ pc = "jc_op_en_1"
    /\ board = "Rk3588"
    /\ submit.flags = <<65535, 65535>>
    /\ submit.task_number = <<0, 5>>
    /\ Writes(log)[6].val = <<0, 28677>>

IsVersionRead(e) == e.kind = "r" /\ e.reg = "version"

\* C10: initialize reads the version register at most once, only after the
\* four power-domain enables, and then returns at once: Ok exactly when
\* the value read is 0x46495245, UnsupportedVersion otherwise.
C10_VersionCheck ==
    InInitialize =>
      LET reads == SelectSeq(log, IsVersionRead)
      IN  /\ Len(reads) <= 1
          /\ Len(reads) = 1
                => /\ Len(log) = 5
                   /\ SubSeq(log, 1, 4) = InitializeOrder
                   /\ log[5] = reads[1]
                   /\ pc = "done"
                   /\ result = IF reads[1].val = <<17993, 21061>>
                               THEN "Ok" ELSE "UnsupportedVersion"
          /\ (pc = "done" /\ result \in {"Ok", "UnsupportedVersion"})
                => Len(reads) = 1

C10_Witness ==
    /\ InInitialize
    /\ pc = "done"
    /\ result = "UnsupportedVersion"
    /\ Len(log) = 5

IsInvalidate(e) == e.kind = "invalidate"

IsFlush(e) == e.kind = "flush"

\* C11: when a poll reads a completion code the wait stops polling at that
\* poll (every earlier poll read something else), then performs exactly
\* one invalidate of 8 MiB at pool_start = task_base - 0x1000 with its
\* barrier, then exactly one write of the status read to int_clear, and
\* returns Ok; no invalidate happens on any other path.
C11_CompletionSequence ==
    InSubmit =>
      LET inv == SelectSeq(log, IsInvalidate)
          pool == Invalidate(WSub(task_base, <<0, 4096>>), 8388608)
      IN  /\ Len(inv) <= 1
          /\ Len(inv) = 1
                => /\ int_status \in CompletionCodes
                   /\ pc \in {"wj_clear", "done"}
          /\ (pc \in {"wj_invalidate", "wj_clear"}
                \/ (pc = "done" /\ result = "Ok"))
                => /\ polls = i + 1
                   /\ int_status \in CompletionCodes
                   /\ Len(Writes(SubSeq(log, 1, 12))) = 8
          /\ pc = "wj_invalidate" => Len(log) = 12
          /\ pc = "wj_clear"
                => /\ Len(log) = 14
                   /\ log[13] = pool
                   /\ log[14] = Barrier
          /\ (pc = "done" /\ result = "Ok")
                => /\ Len(log) = 15
                   /\ log[13] = pool
                   /\ log[14] = Barrier
                   /\ log[15] = RegWrite("int_clear", int_status)

C11_Witness ==
    /\ InSubmit
    /\ pc = "done"
    /\ result = "Ok"
    /\ int_status = <<0, 512>>
    /\ polls > 1
    /\ Len(log) = 15

\* C12: before the first register write of a submission the log holds
\* exactly the flush of 1024 bytes at task_base with its barrier and then
\* the flush of 8 MiB at the first descriptor's command address (mapped
\* through the linear map) with its barrier; no flush follows a write.
C12_FlushBeforeProgramming ==
    (InSubmit /\ (Writes(log) # <<>> \/ pc = "jc_mode")) =>
      /\ Len(log) >= 4
      /\ log[1] = Flush(task_base, 1024)
      /\ log[2] = Barrier
      /\ IsFlush(log[3])
      /\ log[3].val = first_task.regcmd_addr
      /\ log[3].arg = 8388608
      /\ first_task.regcmd_top = 0
            => log[3] = Flush(first_task.regcmd_addr, 8388608)
      /\ log[4] = Barrier
      /\ \A k \in 5..Len(log) : ~IsFlush(log[k])
      /\ Len(Writes(log)) >= 7 => log[11] = RegWrite("pc_op_en", <<0, 1>>)

C12_Witness ==
    /\ InSubmit
    /\ pc = "jc_addr"
    /\ Len(log) = 5
    /\ IsWrite(log[5])
    /\ log[4] = Barrier

\* C13: a submission performs no power-domain call, no delay and no write
\* to the reset register; one that ends in TaskTimeout has as its last
\* side effect the pc_op_en := 0 write of the enable pulse: no register
\* write and no invalidate follows it.
C13_TimeoutLeavesDeviceAlone ==
    InSubmit =>
      /\ \A k \in 1..Len(log) :
            /\ log[k].kind \notin {"pd_on", "pd_off", "delay"}
            /\ log[k].reg # "softrst_con_npu"
      /\ (pc = "done" /\ result = "TaskTimeout")
            => /\ Len(log) = 12
               /\ log[11] = RegWrite("pc_op_en", <<0, 1>>)
               /\ log[12] = RegWrite("pc_op_en", <<0, 0>>)
               /\ SelectSeq(log, IsInvalidate) = <<>>
               /\ Len(Writes(log)) = 8

C13_Witness ==
    /\ InSubmit
    /\ pc = "done"
    /\ result = "TaskTimeout"
    /\ int_status = <<0, 768>>
    /\ Len(log) = 12

InHandleIrq == op = "handle_irq"

\* C14: handle_irq reads int_status once; for a nonzero value it writes
\* exactly that value to int_clear and returns Ok with it; for zero it
\* returns NoInterrupt and writes nothing.
C14_HandleIrq ==
    InHandleIrq =>
      /\ Len(log) <= 2
      /\ Len(log) >= 1 => log[1] = RegRead("int_status", int_status)
      /\ Len(log) = 2
            => /\ log[2] = RegWrite("int_clear", log[1].val)
               /\ log[1].val # <<0, 0>>
               /\ pc = "done"
      /\ pc = "irq_clear" => (Len(log) = 1 /\ int_status # <<0, 0>>)
      /\ pc = "done"
            => IF int_status = <<0, 0>>
               THEN result = "NoInterrupt" /\ Len(log) = 1
               ELSE result = "Ok" /\ Len(log) = 2

C14_Witness ==
    /\ InHandleIrq
    /\ pc = "done"
    /\ result = "Ok"
    /\ int_status = <<0, 768>>
    /\ Len(log) = 2

\* the timeout the claim expects for a request
ExpectedTimeout == IF submit.timeout = 0 THEN 5000 ELSE submit.timeout

\* C15: the wait runs with timeout_ms = request.timeout when that is
\* nonzero and 5000 when it is zero; it never polls more than 100 times
\* that many times and times out after exactly that many polls.
C15_EffectiveTimeout ==
    InSubmit =>
      /\ PollingReached => timeout_ms = ExpectedTimeout
      /\ polls <= ExpectedTimeout * 100
      /\ (pc = "done" /\ result = "TaskTimeout")
            => polls = ExpectedTimeout * 100

\* a request with timeout 0 still polling after more polls than the
\* smallest explicit timeout would allow
C15_Witness ==
    /\ InSubmit
    /\ pc = "wj_poll"
    /\ submit.timeout = 0
    /\ timeout_ms = 5000
    /\ polls = 101

\* a descriptor index that lies inside the task image
InImage(k) == k \in DOMAIN tasks

\* C16: the command address, the data amount and the int_clear value
\* written come from the descriptor at task_start and the int_mask value
\* from the descriptor at task_start + task_number - 1; with the fixed
\* values of the other writes, the write sequence depends on no other
\* descriptor content.
C16_FirstAndLastDescriptor ==
    (InSubmit /\ submit.task_start[1] = 0 /\ submit.task_number[1] = 0) =>
      LET ws == Writes(log)
          first == submit.task_start[2]
          last == submit.task_start[2] + submit.task_number[2] - 1
      IN  /\ (Len(ws) >= 2 /\ InImage(first))
                => ws[2].val = Wrap32(tasks[first].regcmd_addr)
          /\ (Len(ws) >= 3 /\ InImage(first))
                => ws[3].val =
                      data_amount_calc(tasks[first].regcfg_amount,
                                       config.pc_data_amount_scale).val
          /\ (Len(ws) >= 4 /\ InImage(last))
                => ws[4].val = tasks[last].int_mask
          /\ (Len(ws) >= 5 /\ InImage(first))
                => ws[5].val = tasks[first].int_clear

C16_Witness ==
    /\ InSubmit
    /\ submit.task_start = <<0, 1>>
    /\ submit.task_number = <<0, 3>>
    /\ Len(Writes(log)) >= 5
    /\ Writes(log)[4].val = <<0, 771>>
    /\ Writes(log)[5].val = <<1, 65534>>

\* what a log entry is: the register of a write, else its kind
Shape(e) == IF e.kind = "w" THEN e.reg ELSE e.kind

Shapes(l) == [k \in 1..Len(l) |-> Shape(l[k])]

SoftResetShape ==
    <<"int_clear",
      "softrst_con_npu", "delay", "softrst_con_npu", "delay",
      "softrst_con_npu", "delay", "softrst_con_npu", "delay",
      "delay",
      "pd_off", "pd_off", "pd_off", "pd_off",
      "delay",
      "pd_on", "pd_on", "pd_on", "pd_on">>

DomainOn(d) ==
    LET ops == SelectSeq(PdOps(log), LAMBDA e : e.val = <<0, d>>)
    IN  ops # <<>> /\ ops[Len(ops)].kind = "pd_on"

\* C18 (as claimed): after a successful initialize the domain of extra
\* core 1 (NPU1, 10) and of extra core 2 (NPU2, 11) is on exactly when the
\* core's bit is set in core_mask, and a domain of a core outside the
\* mask has been turned off.
C18_CoreMaskPowerDomains ==
    (InInitialize /\ pc = "done" /\ result = "Ok") =>
      \A c \in {1, 2} :
         LET d == IF c = 1 THEN 10 ELSE 11
             inmask == Bit(<<0, config.core_mask>>, c) = 1
         IN  /\ DomainOn(d) <=> inmask
             /\ ~inmask
                   => \E k \in 1..Len(log) : log[k] = PdOff(d)

\* a caller has switched the address mode and has not yet returned
InFlightLabels ==
    {"jc_addr", "jc_amount", "jc_int_mask", "jc_int_clear",
     "jc_task_control", "jc_op_en_1", "jc_op_en_0", "submit_timeout",
     "wj_poll", "wj_invalidate", "wj_clear"}

FirstInFlight == InSubmit /\ pc \in InFlightLabels
PeerInFlight == peer_pc \in InFlightLabels

C20_PowerFailureReturnsError ==
    (InInitialize \/ InSoftReset) => pc # "panicked"

\* the number of set bits among bits 0..2
PopCount3(m) == (m % 2) + ((m \div 2) % 2) + ((m \div 4) % 2)

\* what a configuration of board b satisfies: its core_mask has bits only
\* in positions 0..2, is the board's core mask, and has as many set bits as
\* RkBoard::num_cores and RknpuConfig::num_cores report; is_core_available
\* answers by the mask
ConfigFacts(cfg, b) ==
    /\ cfg.core_mask \in 0..7
    /\ cfg.core_mask = board_core_mask(b)
    /\ PopCount3(cfg.core_mask) = board_num_cores(b)
    /\ num_cores(cfg) = board_num_cores(b)
    /\ \A c \in 0..4 :
          is_core_available(cfg, c)
             <=> (c <= 2 /\ (cfg.core_mask \div Pow2(c)) % 2 = 1)

\* C21: the configuration of the device is the one from_board chose for
\* its board in every state (no operation modifies it); its core_mask is
\* the board's core mask, within bits 0..2 and with num_cores set bits,
\* and is_core_available answers by it.  The facts about the mask depend
\* on config alone, which never changes, so they are evaluated in the
\* states between calls.
C21_ConfigInvariant ==
    /\ config = from_board(board)
    /\ pc = "idle" => ConfigFacts(config, board)

C21_Witness ==
    /\ InSoftReset
    /\ pc = "done"
    /\ result = "Ok"
    /\ board = "Rk3583"
    /\ config.core_mask = 3
    /\ ~is_core_available(config, 2)

\* the stage of the job lifecycle a submit call is in
Stage ==
    CASE pc \in {"idle", "submit_validate", "jc_entry"} -> 0
      [] pc \in {"jc_flush_tasks", "jc_flush_cmd", "jc_read", "jc_mode",
                 "jc_addr", "jc_amount", "jc_int_mask", "jc_int_clear",
                 "jc_task_control", "jc_op_en_1", "jc_op_en_0"} -> 1
      [] pc = "submit_timeout" -> 2
      [] pc \in {"wj_poll", "wj_invalidate", "wj_clear"} -> 3
      [] pc = "done" -> 4
      [] OTHER -> 5

Outcome == pc = "done" /\ result \in {"Ok", "TaskTimeout"}

\* a step stays in its stage, enters the next one, rejects the request
\* before validation ends, or returns to the caller
StageStep ==
    \/ Stage' = Stage
    \/ Stage <= 2 /\ Stage' = Stage + 1
    \/ Stage = 3 /\ Outcome'
    \/ /\ Stage = 0
       /\ pc' = "done"
       /\ result' \in {"InvalidInput", "InvalidTaskAddress"}
    \/ Stage = 4 /\ pc' = "idle"

PollingAfterPulse ==
    (InSubmit /\ Stage = 3) =>
      /\ Len(Writes(log)) >= 8
      /\ Writes(log)[7] = RegWrite("pc_op_en", <<0, 1>>)
      /\ Writes(log)[8] = RegWrite("pc_op_en", <<0, 0>>)
      /\ timeout_ms >= 1

ExpectedLines ==
    LET first == start.x - (start.x % 64)
        last == start.x + size
        n == IF last > first THEN (last - first + 63) \div 64 ELSE 0
    IN  [k \in 1..n |-> LineOp(cache_op, Address(start.top,
                                                  first + 64 * (k - 1)))]

\* a line the range [start, start + size) has a byte in
Overlaps(line) ==
    /\ line.top = start.top
    /\ line.x < start.x + size
    /\ start.x < line.x + 64

\* C23 (as claimed): for every start and size the function returns, having
\* issued one line instruction at each multiple of 64 from start rounded
\* down up to start + size, ascending and once each, then the barrier
\* once; every line it touched has a byte of [start, start + size).
C23_LineByLine ==
    /\ cache_pc # "panicked"
    /\ cache_pc = "loop" => IsPrefix(maint, ExpectedLines)
    /\ cache_pc \in {"barrier", "done"}
          => /\ IsPrefix(ExpectedLines, maint)
             /\ Len(maint) = Len(ExpectedLines)
                   + (IF cache_pc = "done" THEN 1 ELSE 0)
    /\ cache_pc = "done" => maint[Len(maint)] = BarrierOp
    /\ \A k \in 1..Len(maint) :
          maint[k] # BarrierOp => Overlaps(maint[k].at)

InAction == op = "action"

\* C24 (as claimed): the action operation returns InvalidInput for every
\* action code other than 0 and 6, codes above 23 included, without a
\* register write and with the value field as the caller gave it; for
\* code 0 it returns Ok with the version read in the value field.
C24_UnsupportedActionRejected ==
    (InAction /\ pc \in {"done", "panicked"}) =>
      IF action.flags \notin {<<0, 0>>, <<0, 6>>}
      THEN /\ pc = "done"
           /\ result = "InvalidInput"
           /\ log = <<>>
           /\ action.value \in ActionValues
      ELSE /\ result = "Ok"
           /\ Writes(log) = <<>>
           /\ action.flags = <<0, 0>>
                 => log = <<RegRead("version", action.value)>>

\* C25 (as claimed): the action operation with the reset code 6 has run
\* the whole soft_reset sequence when it returns Ok.
C25_ResetActionResets ==
    (InAction /\ pc = "done" /\ action.flags = <<0, 6>>) =>
      /\ result = "Ok"
      /\ Shapes(log) = SoftResetShape

\* C26 (as claimed): in the value written to pc_task_control the bits below
\* pc_task_number_bits are task_number and the bits above them are
\* 0x6 | ping-pong; the task_number of an accepted request does not
\* exceed pc_task_number_mask.
C26_TaskNumberFitsField ==
    (InSubmit /\ Len(Writes(log)) >= 6) =>
      LET v == Writes(log)[6].val
          w == config.pc_task_number_bits
          mode == 6 + Bit(submit.flags, 2)
      IN  /\ ~WLt(config.pc_task_number_mask, submit.task_number)
          /\ \A k \in 0..31 :
                Bit(v, k) = IF k < w THEN Bit(submit.task_number, k)
                            ELSE IF k - w <= 2
                                 THEN (mode \div Pow2(k - w)) % 2
                                 ELSE 0

\* C27 (as claimed): for an accepted request the index of the last
\* descriptor is computed without abort, equals task_start + task_number
\* - 1 over the integers and is not below task_start.
C27_TaskEndInRange ==
    (InSubmit /\ SubmitAccepted /\ pc \notin {"submit_validate", "jc_entry"})
      =>
      /\ ~(pc = "panicked" /\ log = <<>>)
      /\ pc # "panicked"
            => /\ task_end = WSub(WAdd(submit.task_start,
                                       submit.task_number), <<0, 1>>)
               /\ ~WLt(task_end, submit.task_start)

====
